---- MODULE Spec2Model ----
(***************************************************************************)
(* finsim (src/sim.py): compute_interest, the month-by-month compounding   *)
(* simulation, and compare_investments, the two-scenario comparison built  *)
(* on it.                                                                  *)
(*                                                                         *)
(* Amounts and rates are exact rationals [num, den] (den > 0, lowest       *)
(* terms).  The annual rates are drawn from the values whose twelfth root  *)
(* is rational, so that line 47's (1 + r/100) ** (1/12) - 1 is computed    *)
(* exactly.  compute_interest is one sequential program; each action is    *)
(* one of its program positions, in the order the code runs them.          *)
(***************************************************************************)
EXTENDS Integers, Sequences, FiniteSets, TLC

----
\* Bounds of the model.

\* the longest horizon (rest_months / months) an input may have
MaxMonths == 25

\* the largest reorganize_portfolio_times an input may have
MaxReorg == 2

----
\* Exact rational arithmetic, standing for Python's number arithmetic.

Abs(n) == IF n < 0 THEN -n ELSE n

RECURSIVE GCD(_, _)
GCD(a, b) == IF b = 0 THEN a ELSE GCD(b, a % b)

\* n/d in lowest terms, d > 0
Norm(n, d) ==
    LET g == GCD(Abs(n), d) IN [num |-> n \div g, den |-> d \div g]

\* the integer n
Q(n) == [num |-> n, den |-> 1]

\* the fraction n/d
Frac(n, d) == Norm(n, d)

Zero == Q(0)
One == Q(1)

AddQ(a, b) ==
    LET l == (a.den \div GCD(a.den, b.den)) * b.den
    IN  Norm(a.num * (l \div a.den) + b.num * (l \div b.den), l)

NegQ(a) == [num |-> -a.num, den |-> a.den]

SubQ(a, b) == AddQ(a, NegQ(b))

MulQ(a, b) ==
    LET g1 == GCD(Abs(a.num), b.den)
        g2 == GCD(Abs(b.num), a.den)
    IN  Norm((a.num \div g1) * (b.num \div g2), (a.den \div g2) * (b.den \div g1))

\* a / b for b # 0
DivQ(a, b) ==
    IF b.num > 0 THEN MulQ(a, [num |-> b.den, den |-> b.num])
    ELSE MulQ(a, [num |-> -b.den, den |-> -b.num])

LtQ(a, b) == a.num * b.den < b.num * a.den
LeQ(a, b) == a.num * b.den <= b.num * a.den

RECURSIVE PowQ(_, _)
PowQ(a, k) == IF k = 0 THEN One ELSE MulQ(a, PowQ(a, k - 1))

\* Python's min(a, b): b when b < a, else a
MinQ(a, b) == IF LtQ(b, a) THEN b ELSE a

\* truncation toward zero of a / b (b > 0): numpy's astype(int) of a float
Trunc(a, b) == IF a >= 0 THEN a \div b ELSE -((-a) \div b)

----
\* Inputs.

\* monthly growth factors 1 + monthly_interest with a rational twelfth power
GrowthFactors == {Zero, One, Q(2)}

\* the annual rate, in percent, that compounds from monthly factor g:
\* -100, 0 and 409500
AnnualPercent(g) == MulQ(Q(100), SubQ(PowQ(g, 12), One))

YearlyInterests == {AnnualPercent(g) : g \in GrowthFactors}

MonthlyRates == {Q(-1), Q(1)}

RateIncrements == {Q(0), Q(100)}

TaxRates == {Q(0), Q(50)}

\* monthly_fees: a sequence of <<fee_month, fee_rate>>; None and [] are both
\* the empty sequence (line 71 tests truthiness only)
FeeSchedules ==
    {<< >>, << <<2, Q(3)>> >>, << <<13, Q(1)>>, <<2, Q(3)>> >>}

TaxFreeAmounts == {Q(0), Q(5)}

\* arguments of a direct call of compute_interest, invalid ones included, all
\* of them plain Python numbers (np_interest: the rate is a numpy scalar)
SimulateCalls ==
    [fn : {"compute_interest"},
     monthly_rate : MonthlyRates,
     yrly_interest : YearlyInterests,
     rest_months : -1 .. MaxMonths,
     rate_increment : RateIncrements,
     reorganize_portfolio_times : -3 .. MaxReorg,
     tax_rate : TaxRates,
     monthly_fees : FeeSchedules,
     yrly_taxfree : TaxFreeAmounts,
     np_interest : {FALSE}]

----
\* State.

VARIABLES
    call,       \* the top-level call: its function and arguments
    p,          \* the arguments of the running compute_interest call
    pc,         \* position in compute_interest
    error,      \* the exception raised, "" when none
    already_taxed, non_taxed, total_fees,   \* lines 45, 46, 48
    monthly_interest,                       \* line 47
    monthly_rate,                           \* the parameter, rebound at line 62
    yrs, rest_months,                       \* line 50
    reorganize_portfolio_yrs,               \* line 52
    yr, months, month,                      \* loop variables
    money_moved,                            \* line 83
    ret,        \* compute_interest's returned tuple, << >> before it returns
    visited,    \* history: the cumulative month indices yr*12 + month run so far
    year_ends,  \* history: the year blocks whose year-end steps have run
    reorg_applied,  \* history: the yr after which lines 79-80 ran
    steps,      \* history: the steps the running compute_interest call has taken
    is_np,      \* which of already_taxed, non_taxed is a numpy scalar
    cpc,        \* position in compare_investments, "none" for a direct call
    cloc,       \* compare_investments' locals
    cret        \* compare_investments' returned tuple, << >> before it returns

simvars ==
    <<pc, error, already_taxed, non_taxed, total_fees, monthly_interest,
      monthly_rate, yrs, rest_months, reorganize_portfolio_yrs, yr, months,
      month, money_moved, ret, visited, year_ends, reorg_applied, steps,
      is_np>>

cmpvars == <<cpc, cloc, cret>>

vars == <<call, p, simvars, cmpvars>>

----
\* compute_interest, line by line.

\* line 47: (1 + yrly_interest / 100) ** (1 / 12) - 1
MonthlyInterest(yrly_interest) ==
    LET x == AddQ(One, DivQ(yrly_interest, Q(100)))
        root == CHOOSE g \in GrowthFactors : PowQ(g, 12) = x
    IN  SubQ(root, One)

\* np.linspace(0, stop, num, dtype=int): num >= 0 samples from 0 to stop,
\* endpoint included, truncated to integers
Linspace(stop, num) ==
    [i \in 1 .. num |->
        IF num = 1 THEN 0
        ELSE IF i = num THEN stop
        ELSE Trunc((i - 1) * stop, num - 1)]

\* s[1:-1]
Interior(s) == SubSeq(s, 2, Len(s) - 1)

\* line 78: yr in reorganize_portfolio_yrs
InYears(y, s) == \E i \in DOMAIN s : s[i] = y

\* MonthsOfBlock without the final partial block: every block has 12 months
MonthsOfBlockFull(y, nyrs, rest) == 12

\* MonthsOfBlock with the final block one month too long
MonthsOfBlockOneMore(y, nyrs, rest) == IF y = nyrs THEN rest + 1 ELSE 12

\* lines 54-59: the months of block y, 0 meaning the break of line 57
MonthsOfBlock(y, nyrs, rest) == IF y = nyrs THEN rest ELSE 12

\* lines 61-62
NextContribution(rate, incr) ==
    IF LtQ(Zero, incr) THEN MulQ(rate, AddQ(One, DivQ(incr, Q(100)))) ELSE rate

\* Interest with the two balances subtracted the wrong way round
InterestReversed(taxed, untaxed, mi) == MulQ(SubQ(untaxed, taxed), mi)

\* lines 66-67
Interest(taxed, untaxed, mi) == MulQ(AddQ(taxed, untaxed), mi)

\* FeeActive with the threshold month excluded
FeeActiveExclusive(index, fee_month) == index < fee_month

\* line 73
FeeActive(index, fee_month) == index <= fee_month

\* lines 72-75 from entry k on: non_taxed and total_fees after the loop
RECURSIVE ChargeFees(_, _, _, _, _)
ChargeFees(fees, k, index, untaxed, paid) ==
    IF k > Len(fees) THEN [non_taxed |-> untaxed, total_fees |-> paid]
    ELSE IF FeeActive(index, fees[k][1])
         THEN ChargeFees(fees, k + 1, index,
                         SubQ(untaxed, fees[k][2]), AddQ(paid, fees[k][2]))
         ELSE ChargeFees(fees, k + 1, index, untaxed, paid)

\* line 79: what the reorganization adds to already_taxed
NetOfTax(untaxed, tax_rate) ==
    MulQ(untaxed, SubQ(One, DivQ(tax_rate, Q(100))))

\* MoneyMoved without the cap at non_taxed
MoneyMovedUncapped(taxfree, untaxed) == taxfree

\* line 83
MoneyMoved(taxfree, untaxed) == MinQ(taxfree, untaxed)

\* lines 45-52.  np.linspace raises ValueError for a negative sample count.
Entry ==
    /\ pc = "entry"
    /\ steps' = steps + 1
    /\ IF p.reorganize_portfolio_times + 2 < 0
       THEN /\ pc' = "raised"
            /\ error' = "ValueError"
            /\ UNCHANGED <<already_taxed, non_taxed, total_fees, monthly_interest,
                           monthly_rate, yrs, rest_months,
                           reorganize_portfolio_yrs, visited, year_ends,
                           reorg_applied, is_np>>
       ELSE /\ pc' = "for_yr"
            /\ already_taxed' = Zero
            /\ non_taxed' = Zero
            /\ monthly_interest' = MonthlyInterest(p.yrly_interest)
            /\ total_fees' = Zero
            /\ monthly_rate' = p.monthly_rate
            /\ yrs' = p.rest_months \div 12
            /\ rest_months' = p.rest_months % 12
            /\ reorganize_portfolio_yrs' =
                   Interior(Linspace(p.rest_months \div 12,
                                     p.reorganize_portfolio_times + 2))
            /\ visited' = << >>
            /\ year_ends' = << >>
            /\ reorg_applied' = {}
            /\ is_np' = [already_taxed |-> FALSE, non_taxed |-> FALSE]
            /\ UNCHANGED error
    /\ yr' = 0
    /\ UNCHANGED <<months, month, money_moved, ret, call, p, cmpvars>>

\* lines 53-62: the next yr of range(yrs + 1), the break, the block's months
\* and the contribution's yearly increase
ForYear ==
    /\ pc = "for_yr"
    /\ steps' = steps + 1
    /\ IF yr > yrs \/ MonthsOfBlock(yr, yrs, rest_months) = 0
       THEN /\ pc' = "return"
            /\ UNCHANGED <<months, month, monthly_rate>>
       ELSE /\ pc' = "for_month"
            /\ months' = MonthsOfBlock(yr, yrs, rest_months)
            /\ month' = 0
            /\ monthly_rate' = NextContribution(monthly_rate, p.rate_increment)
    /\ UNCHANGED <<error, already_taxed, non_taxed, total_fees, monthly_interest,
                   yrs, rest_months, reorganize_portfolio_yrs, yr, money_moved,
                   ret, visited, year_ends, reorg_applied, is_np, call, p,
                   cmpvars>>

\* lines 63-75: one month
Month ==
    /\ pc = "for_month"
    /\ steps' = steps + 1
    /\ month < months
    /\ LET taxed == AddQ(already_taxed, monthly_rate)
           untaxed == AddQ(non_taxed, Interest(taxed, non_taxed, monthly_interest))
           charged == ChargeFees(p.monthly_fees, 1, yr * 12 + month, untaxed,
                                 total_fees)
       IN  /\ already_taxed' = taxed
           /\ non_taxed' = charged.non_taxed
           /\ total_fees' = charged.total_fees
    /\ is_np' = [is_np EXCEPT !.non_taxed =
                     is_np.non_taxed \/ is_np.already_taxed \/ p.np_interest]
    /\ visited' = Append(visited, yr * 12 + month)
    /\ month' = month + 1
    /\ UNCHANGED <<pc, error, monthly_interest, monthly_rate, yrs, rest_months,
                   reorganize_portfolio_yrs, yr, months, money_moved, ret,
                   year_ends, reorg_applied, call, p, cmpvars>>

\* lines 77-80, once the block's months are done
Reorganize ==
    /\ pc = "for_month"
    /\ steps' = steps + 1
    /\ month >= months
    /\ pc' = "taxfree"
    /\ IF p.reorganize_portfolio_times > 0 /\ InYears(yr, reorganize_portfolio_yrs)
       THEN /\ already_taxed' = AddQ(already_taxed, NetOfTax(non_taxed, p.tax_rate))
            /\ non_taxed' = Zero
            /\ reorg_applied' = reorg_applied \cup {yr}
            /\ is_np' = [already_taxed |-> is_np.already_taxed \/ is_np.non_taxed,
                         non_taxed |-> FALSE]
       ELSE UNCHANGED <<already_taxed, non_taxed, reorg_applied, is_np>>
    /\ UNCHANGED <<error, total_fees, monthly_interest, monthly_rate, yrs,
                   rest_months, reorganize_portfolio_yrs, yr, months, month,
                   money_moved, ret, visited, year_ends, call, p, cmpvars>>

\* lines 82-85, then on to the next yr
TaxFree ==
    /\ pc = "taxfree"
    /\ steps' = steps + 1
    /\ pc' = "for_yr"
    /\ IF LtQ(Zero, p.yrly_taxfree)
       THEN LET moved == MoneyMoved(p.yrly_taxfree, non_taxed)
            IN  /\ money_moved' = moved
                /\ non_taxed' = SubQ(non_taxed, moved)
                /\ already_taxed' = AddQ(already_taxed, moved)
                /\ is_np' = [is_np EXCEPT !.already_taxed =
                                 is_np.already_taxed
                                     \/ (is_np.non_taxed /\ moved = non_taxed
                                           /\ LtQ(non_taxed, p.yrly_taxfree))]
       ELSE UNCHANGED <<money_moved, non_taxed, already_taxed, is_np>>
    /\ year_ends' = Append(year_ends, yr)
    /\ yr' = yr + 1
    /\ UNCHANGED <<error, total_fees, monthly_interest, monthly_rate, yrs,
                   rest_months, reorganize_portfolio_yrs, months, month, ret,
                   visited, reorg_applied, call, p, cmpvars>>

\* line 88
Return ==
    /\ pc = "return"
    /\ steps' = steps + 1
    /\ pc' = "returned"
    /\ ret' = <<already_taxed, non_taxed, total_fees>>
    /\ UNCHANGED <<error, already_taxed, non_taxed, total_fees, monthly_interest,
                   monthly_rate, yrs, rest_months, reorganize_portfolio_yrs, yr,
                   months, month, money_moved, visited, year_ends, reorg_applied,
                   is_np, call, p, cmpvars>>

\* the locals before compute_interest is entered
Unentered ==
    /\ error = ""
    /\ already_taxed = Zero
    /\ non_taxed = Zero
    /\ total_fees = Zero
    /\ monthly_interest = Zero
    /\ monthly_rate = Zero
    /\ yrs = 0
    /\ rest_months = 0
    /\ reorganize_portfolio_yrs = << >>
    /\ yr = 0
    /\ months = 0
    /\ month = 0
    /\ money_moved = Zero
    /\ ret = << >>
    /\ visited = << >>
    /\ year_ends = << >>
    /\ reorg_applied = {}
    /\ steps = 0
    /\ is_np = [already_taxed |-> FALSE, non_taxed |-> FALSE]

\* a direct call of compute_interest
Init ==
    /\ call \in SimulateCalls
    /\ p = call
    /\ pc = "entry"
    /\ Unentered
    /\ cpc = "none"
    /\ cloc = << >>
    /\ cret = << >>

Simulate == Entry \/ ForYear \/ Month \/ Reorganize \/ TaxFree \/ Return

Next == Simulate

Spec == Init /\ [][Next]_vars

----
\* compare_investments.

\* the percentage fees compare_investments subtracts from the two rates
PercentFee == Q(1)

\* the horizons compared: none, a partial year, a full year, the longest
CompareMonths == {0, 7, 12, MaxMonths}

\* arguments of a call of compare_investments.  np_interest: the two rates are
\* numpy scalars, as in plot_varinterest_varorga and plot_heatmap.
CompareCalls ==
    [fn : {"compare_investments"},
     months : CompareMonths,
     monthly_rate : {Q(1)},
     dynamic : RateIncrements,
     avg_nocontract_interest : {AddQ(y, PercentFee) : y \in YearlyInterests},
     avg_contract_interest :
         {AddQ(y, AddQ(PercentFee, PercentFee)) : y \in YearlyInterests},
     avg_fond_fees : {PercentFee},
     contract_fee : {PercentFee},
     etf_fee : {PercentFee},
     steuerfreibetrag : TaxFreeAmounts,
     monthly_fees : {<< >>, << <<13, Q(1)>>, <<2, Q(3)>> >>},
     regular_tax_rate : TaxRates,
     contract_tax_rate : TaxRates,
     reorganize_portfolio_times : 0 .. MaxReorg,
     np_interest : BOOLEAN]

\* line 136
ContractPctFee(avg_fond_fees, contract_fee) == AddQ(avg_fond_fees, contract_fee)

\* lines 137-143: the arguments of the first call; monthly_fees defaults to None
NoContractArgs(c) ==
    [fn |-> "compute_interest",
     monthly_rate |-> c.monthly_rate,
     yrly_interest |-> SubQ(c.avg_nocontract_interest, c.etf_fee),
     rest_months |-> c.months,
     rate_increment |-> c.dynamic,
     reorganize_portfolio_times |-> c.reorganize_portfolio_times,
     tax_rate |-> c.regular_tax_rate,
     monthly_fees |-> << >>,
     yrly_taxfree |-> c.steuerfreibetrag,
     np_interest |-> c.np_interest]

\* ContractArgs without rate_increment=dynamic
ContractArgsNoDynamic(c) ==
    [fn |-> "compute_interest",
     monthly_rate |-> c.monthly_rate,
     yrly_interest |->
         SubQ(c.avg_contract_interest, AddQ(c.avg_fond_fees, c.contract_fee)),
     rest_months |-> c.months,
     rate_increment |-> Zero,
     reorganize_portfolio_times |-> 0,
     tax_rate |-> Frac(1, 4),
     monthly_fees |-> c.monthly_fees,
     yrly_taxfree |-> Zero,
     np_interest |-> c.np_interest]

\* lines 144-148: the arguments of the second call; reorganize_portfolio_times
\* and yrly_taxfree default to 0, tax_rate to 0.25
ContractArgs(c) ==
    [fn |-> "compute_interest",
     monthly_rate |-> c.monthly_rate,
     yrly_interest |->
         SubQ(c.avg_contract_interest,
              ContractPctFee(c.avg_fond_fees, c.contract_fee)),
     rest_months |-> c.months,
     rate_increment |-> c.dynamic,
     reorganize_portfolio_times |-> 0,
     tax_rate |-> Frac(1, 4),
     monthly_fees |-> c.monthly_fees,
     yrly_taxfree |-> Zero,
     np_interest |-> c.np_interest]

\* lines 150-153: taxed + untaxed * (1 - tax_rate / 100)
WorthAfterTaxes(taxed, untaxed, tax_rate) ==
    AddQ(taxed, MulQ(untaxed, SubQ(One, DivQ(tax_rate, Q(100)))))

\* line 155: a / b.  Python numbers raise ZeroDivisionError on a zero divisor;
\* with a numpy scalar on either side the division is numpy's, which warns
\* and yields inf, -inf or nan.
TrueDiv(a, b, numpy) ==
    IF b.num # 0 THEN [kind |-> "finite", value |-> DivQ(a, b)]
    ELSE IF ~numpy THEN [kind |-> "ZeroDivisionError", value |-> Zero]
    ELSE IF a.num = 0 THEN [kind |-> "nan", value |-> Zero]
    ELSE IF a.num > 0 THEN [kind |-> "inf", value |-> Zero]
    ELSE [kind |-> "-inf", value |-> Zero]

\* a call of compute_interest with arguments a: a fresh frame
Enter(a) ==
    /\ p' = a
    /\ pc' = "entry"
    /\ error' = ""
    /\ already_taxed' = Zero
    /\ non_taxed' = Zero
    /\ total_fees' = Zero
    /\ monthly_interest' = Zero
    /\ monthly_rate' = Zero
    /\ yrs' = 0
    /\ rest_months' = 0
    /\ reorganize_portfolio_yrs' = << >>
    /\ yr' = 0
    /\ months' = 0
    /\ month' = 0
    /\ money_moved' = Zero
    /\ ret' = << >>
    /\ visited' = << >>
    /\ year_ends' = << >>
    /\ reorg_applied' = {}
    /\ steps' = 0
    /\ is_np' = [already_taxed |-> FALSE, non_taxed |-> FALSE]

NoLocals ==
    [contract_pct_fee |-> Zero,
     taxed_nocontract |-> Zero, untaxed_nocontract |-> Zero, np_nocontract |-> FALSE,
     worth_nocontract_after_taxes |-> Zero, worth_contract_after_taxes |-> Zero,
     difference |-> Zero]

\* lines 136-143, up to the first call
CallNoContract ==
    /\ cpc = "start"
    /\ cpc' = "nocontract"
    /\ cloc' = [cloc EXCEPT !.contract_pct_fee =
                    ContractPctFee(call.avg_fond_fees, call.contract_fee)]
    /\ Enter(NoContractArgs(call))
    /\ UNCHANGED <<call, cret>>

\* lines 137 (the results bound) and 144-148, up to the second call
CallContract ==
    /\ cpc = "nocontract"
    /\ pc = "returned"
    /\ cpc' = "contract"
    /\ cloc' = [cloc EXCEPT !.taxed_nocontract = ret[1],
                            !.untaxed_nocontract = ret[2],
                            !.np_nocontract =
                                is_np.already_taxed \/ is_np.non_taxed]
    /\ Enter(ContractArgs(call))
    /\ UNCHANGED <<call, cret>>

\* lines 144 (the results bound) and 150-169
Finish ==
    /\ cpc = "contract"
    /\ pc = "returned"
    /\ LET a == WorthAfterTaxes(cloc.taxed_nocontract, cloc.untaxed_nocontract,
                                call.regular_tax_rate)
           b == WorthAfterTaxes(ret[1], ret[2], call.contract_tax_rate)
           ratio == TrueDiv(a, b, cloc.np_nocontract \/ is_np.already_taxed
                                      \/ is_np.non_taxed)
       IN  /\ cloc' = [cloc EXCEPT !.worth_nocontract_after_taxes = a,
                                   !.worth_contract_after_taxes = b,
                                   !.difference = SubQ(a, b)]
           /\ IF ratio.kind = "ZeroDivisionError"
              THEN /\ cpc' = "raised"
                   /\ error' = "ZeroDivisionError"
                   /\ UNCHANGED cret
              ELSE /\ cpc' = "returned"
                   /\ cret' = <<a, b, SubQ(a, b), ratio, ret[3]>>
                   /\ UNCHANGED error
    /\ UNCHANGED <<call, p, pc, already_taxed, non_taxed, total_fees,
                   monthly_interest, monthly_rate, yrs, rest_months,
                   reorganize_portfolio_yrs, yr, months, month, money_moved, ret,
                   visited, year_ends, reorg_applied, steps, is_np>>

\* a call of compare_investments
InitCompare ==
    /\ call \in CompareCalls
    /\ p = [fn |-> "none"]
    /\ pc = "idle"
    /\ Unentered
    /\ cpc = "start"
    /\ cloc = NoLocals
    /\ cret = << >>

Compare == CallNoContract \/ CallContract \/ Finish

NextCompare == Simulate \/ Compare

CompareSpec == InitCompare /\ [][NextCompare]_vars

----
\* Properties.

\* taxed_balance + untaxed_balance
Total == AddQ(already_taxed, non_taxed)

\* compute_interest has been entered and has not raised
Running == pc \in {"for_yr", "for_month", "taxfree", "return", "returned"}

\* the sequence 0, 1, ..., n - 1
Upto(n) == [i \in 1 .. n |-> i - 1]

\* the months among 0 .. n - 1 in which an entry with threshold t is active
ActiveMonths(t, n) == {i \in 0 .. n - 1 : i <= t}

\* the fees of months 0 .. n - 1 under schedule fees, from entry k on: every
\* entry's fee once for each month in which the entry is active
RECURSIVE FeesOfMonths(_, _, _)
FeesOfMonths(fees, k, n) ==
    IF k > Len(fees) THEN Zero
    ELSE AddQ(MulQ(Q(Cardinality(ActiveMonths(fees[k][1], n))), fees[k][2]),
              FeesOfMonths(fees, k + 1, n))

\* the year blocks a horizon of h months runs
BlocksOf(h) == (h \div 12) + (IF h % 12 > 0 THEN 1 ELSE 0)

\* an argument the spec's error taxonomy calls invalid
InvalidArgs(a) ==
    \/ a.rest_months < 0
    \/ LtQ(a.monthly_rate, Zero)
    \/ a.reorganize_portfolio_times < 0

\* C1: a call with a negative horizon, a negative contribution or a negative
\* reorganization count runs no monthly step and returns no result tuple.
C1_FailsFast ==
    InvalidArgs(p) => (visited = << >> /\ ret = << >> /\ pc # "returned")

\* C2: when the contract scenario's final worth is exactly 0 the comparison
\* ends in an error, and no returned tuple has an infinite or NaN ratio.
C2_DegenerateSignalled ==
    /\ (cpc \in {"returned", "raised"} /\ cloc.worth_contract_after_taxes = Zero)
          => (cpc = "raised" /\ error = "ZeroDivisionError" /\ cret = << >>)
    /\ cpc = "returned" => cret[4].kind = "finite"

\* the two scenarios have the same effective rate, no absolute fees and the
\* same final tax rate
Identical ==
    /\ SubQ(call.avg_nocontract_interest, call.etf_fee)
         = SubQ(call.avg_contract_interest,
                AddQ(call.avg_fond_fees, call.contract_fee))
    /\ call.monthly_fees = << >>
    /\ call.regular_tax_rate = call.contract_tax_rate

\* compare_investments returned difference 0 and ratio 1
EqualWorth ==
    /\ cpc = "returned"
    /\ cret[3] = Zero
    /\ cret[4] = [kind |-> "finite", value |-> One]

\* C3 as claimed: identical scenarios over a horizon > 0 compare equal, for
\* every reorganize_portfolio_times and steuerfreibetrag (stated for the calls
\* with a rate >= 0, where no balance is negative and the final worth is
\* positive).
C3_Original ==
    (/\ cpc \in {"returned", "raised"}
     /\ Identical
     /\ call.months > 0
     /\ LeQ(Zero, SubQ(call.avg_nocontract_interest, call.etf_fee)))
      => EqualWorth

\* C3 as amended: identical scenarios over a horizon > 0 compare equal when
\* reorganize_portfolio_times = 0 and steuerfreibetrag = 0 (the two settings
\* only the no-contract run receives) and the final worth is not 0.
C3_Consistency ==
    (/\ cpc \in {"returned", "raised"}
     /\ Identical
     /\ call.months > 0
     /\ call.reorganize_portfolio_times = 0
     /\ call.steuerfreibetrag = Zero
     /\ cloc.worth_contract_after_taxes # Zero) => EqualWorth

\* identical scenarios, growing contribution, positive rate and tax, over more
\* than a year, compared equal
C3_Witness ==
    /\ EqualWorth
    /\ Identical
    /\ call.months > 12
    /\ call.reorganize_portfolio_times = 0
    /\ call.steuerfreibetrag = Zero
    /\ call.dynamic # Zero
    /\ LtQ(Zero, call.regular_tax_rate)
    /\ LtQ(Zero, p.yrly_interest)
    /\ LtQ(Zero, cret[1])

\* C4: a call with rest_months = 0 (and a reorganization count np.linspace
\* accepts) does not raise, runs no month, and returns (0, 0, 0).
C4_ZeroHorizon ==
    (p.fn = "compute_interest" /\ p.rest_months = 0
        /\ p.reorganize_portfolio_times >= 0)
      => /\ pc # "raised"
         /\ visited = << >>
         /\ pc = "returned" => ret = <<Zero, Zero, Zero>>

\* a zero-horizon call with fees, reorganizations, allowance, contribution
\* growth and a positive rate has returned (0, 0, 0)
C4_Witness ==
    /\ p.rest_months = 0
    /\ pc = "returned"
    /\ ret = <<Zero, Zero, Zero>>
    /\ p.monthly_fees # << >>
    /\ p.reorganize_portfolio_times > 0
    /\ LtQ(Zero, p.yrly_taxfree)
    /\ LtQ(Zero, p.rate_increment)
    /\ LtQ(Zero, p.yrly_interest)

C6_Monotone ==
    [][(/\ Running
        /\ p.monthly_fees = << >>
        /\ p.reorganize_portfolio_times = 0
        /\ LtQ(Zero, p.monthly_rate)
        /\ LeQ(Zero, p.yrly_interest))
       => LeQ(Total, Total')]_vars

\* such a call has run two year-ends with an allowance and grown its total
C6_Witness ==
    /\ pc = "returned"
    /\ p.monthly_fees = << >>
    /\ p.reorganize_portfolio_times = 0
    /\ LtQ(Zero, p.monthly_rate)
    /\ LtQ(Zero, p.yrly_interest)
    /\ LtQ(Zero, p.yrly_taxfree)
    /\ Len(year_ends) >= 2
    /\ LtQ(Q(1000), Total)

\* C7: with rest_months >= 0 and reorganize_portfolio_times >= 1 the
\* reorganization tax is applied only after a year block yr with
\* 0 < yr < yrs.
C7_InteriorYearsOnly ==
    (p.fn = "compute_interest" /\ p.rest_months >= 0
        /\ p.reorganize_portfolio_times >= 1)
      => \A y \in reorg_applied : 0 < y /\ y < yrs

\* C8 as claimed: with a positive contribution and no fee schedule non_taxed
\* is never negative, whatever the rate.
C8_Original ==
    (Running /\ LtQ(Zero, p.monthly_rate) /\ p.monthly_fees = << >>)
      => LeQ(Zero, non_taxed)

\* C8 as amended: with a positive contribution, no fee schedule and a rate
\* >= 0, non_taxed is never negative.
C8_NonNegativeUntaxed ==
    (/\ Running
     /\ LtQ(Zero, p.monthly_rate)
     /\ p.monthly_fees = << >>
     /\ LeQ(Zero, p.yrly_interest)) => LeQ(Zero, non_taxed)

\* such a call has been through a reorganization and an allowance step and
\* returns a positive non_taxed
C8_Witness ==
    /\ pc = "returned"
    /\ LtQ(Zero, p.monthly_rate)
    /\ p.monthly_fees = << >>
    /\ LtQ(Zero, p.yrly_interest)
    /\ LtQ(Zero, p.yrly_taxfree)
    /\ reorg_applied # {}
    /\ LtQ(Zero, non_taxed)

\* C9: the allowance step moves an amount between 0 and yrly_taxfree from
\* non_taxed to already_taxed: already_taxed does not decrease and non_taxed
\* does not increase.
C9_AllowanceStep ==
    [][pc = "taxfree"
       => /\ LeQ(already_taxed, already_taxed')
          /\ LeQ(non_taxed', non_taxed)
          /\ LeQ(SubQ(already_taxed', already_taxed), p.yrly_taxfree)]_vars

\* the steps a call can still take, at most: 16 for each block still to run
\* (12 months, the block's three other steps, one to spare)
Rank ==
    CASE pc = "entry" -> 16 * ((p.rest_months \div 12) + 3) + 1
      [] pc = "for_yr" -> 16 * (yrs + 2 - yr) + 15
      [] pc = "for_month" -> 16 * (yrs + 2 - yr) + 14 - month
      [] pc = "taxfree" -> 16 * (yrs + 2 - yr) + 1
      [] pc = "return" -> 1
      [] OTHER -> 0

\* the guard of one of the six steps of compute_interest holds
CanStep ==
    \/ pc \in {"entry", "for_yr", "taxfree", "return"}
    \/ pc = "for_month" /\ (month < months \/ month >= months)

\* C10: a call with rest_months >= 0 that np.linspace does not refuse always
\* has a next step until it has returned, the steps taken and the steps still
\* possible never exceed the bound fixed at entry, the month indices are
\* visited in the order 0, 1, ..., and at the return exactly
\* 0 .. rest_months - 1 have been visited and the year-end steps have run once
\* for each block 0 .. BlocksOf(rest_months) - 1.
C10_Terminates ==
    (p.fn = "compute_interest" /\ p.rest_months >= 0
        /\ p.reorganize_portfolio_times >= -2)
      => /\ Rank >= 0
         /\ steps + Rank <= 16 * ((p.rest_months \div 12) + 3) + 1
         /\ pc # "raised"
         /\ pc # "returned" => CanStep
         /\ Running => /\ visited = Upto(Len(visited))
                        /\ year_ends = Upto(Len(year_ends))
         /\ pc = "returned" => /\ visited = Upto(p.rest_months)
                                /\ year_ends = Upto(BlocksOf(p.rest_months))

\* a call over more than two years has returned after three year blocks
C10_Witness ==
    /\ pc = "returned"
    /\ p.rest_months > 24
    /\ visited = Upto(p.rest_months)
    /\ Len(year_ends) = 3

====
